---------------------------- MODULE Spec2Model ----------------------------
(***************************************************************************)
(* A model of ChatbotService (src/src/utils/ai/chat_service.ts): the       *)
(* two-stage message pipeline (processMessage), the pending-confirmation   *)
(* ledger (pendingTicketCreations, cleanupOldConfirmations), the           *)
(* confirmation resolver (handleTicketConfirmation) and the response       *)
(* chunker (splitResponse).                                                *)
(*                                                                         *)
(* Every `await` of the source is a suspension point.  Consecutive awaits  *)
(* on collaborators that hold no state of this model (the RAG search, the  *)
(* LLM transport, the channel primitives of one private channel) are       *)
(* taken in one step with every outcome the collaborator can produce      *)
(* (value or exception); awaits that read or write shared state (the       *)
(* category table, the history store, the ticket store) are steps of       *)
(* their own, so that concurrent calls interleave exactly there.           *)
(***************************************************************************)
EXTENDS Integers, Sequences, FiniteSets, TLC

\* ------------------------------------------------------------------ bounds
\* Value of Date.now() when the model starts observing the process.
StartTime == 1000000
\* Number of times the clock is observed to advance.
MaxTicks == 2
\* Number of collaborator calls that throw while the model runs.
MaxFailures == 1

\* --------------------------------------------------------------- constants
\* 5 * 60 * 1000 ms, the age limit in cleanupOldConfirmations.
FiveMinutes == 5 * 60 * 1000

\* ------------------------------------------------------------ value domains
Services == {"s1", "s2"}          \* ChatbotService instances of the process
Turns == {"t1", "t2"}             \* processMessage invocations
Confs == {"h1", "h2"}             \* handleTicketConfirmation invocations
Users == {"u1", "u2"}             \* Discord user ids (decimal snowflakes)
Guilds == {"g1"}                  \* config.guildId values
ClockSteps == {1, FiveMinutes}    \* advances of Date.now() between two reads

Null == "null"
NoId == << >>

\* Rows of the ticket-category table behind TicketRepository: two enabled
\* categories of the same name and a disabled one.
Billing1 ==
    [id |-> "c1", name |-> "Billing", guildId |-> "g1", isEnabled |-> TRUE,
     supportRoleId |-> "role1"]
Billing2 ==
    [id |-> "c2", name |-> "Billing", guildId |-> "g1", isEnabled |-> TRUE,
     supportRoleId |-> Null]
Legal ==
    [id |-> "c3", name |-> "Legal", guildId |-> "g1", isEnabled |-> FALSE,
     supportRoleId |-> Null]

\* The table is kept by staff outside this service: what a read of it finds
\* is one of these contents (all rows; the first deleted; only the disabled
\* row left; none).
CategoryTables ==
    { << Billing1, Billing2, Legal >>, << Billing2, Legal >>, << Legal >>,
      << >> }

\* args.ticket_category values the model may answer with (the enum offered to
\* it does not bind it), Null standing for an absent property.
ToolCategoryNames == {"Billing", "Legal", "Refunds", Null}

\* args.message values, Null standing for an absent or empty property.
ToolMessages == {"I will open a ticket for you", Null}
UserMessages == {"hello"}         \* userMessage arguments
ChannelIds == {"chan1"}           \* channelId arguments

\* ------------------------------------------------------------------- state
VARIABLES
    now,          \* Date.now()
    ticks,        \* how often the clock has advanced
    pending,      \* pendingTicketCreations of each ChatbotService instance
    failures,     \* how many collaborator calls have thrown
    history,      \* ChatHistory of each (userId, guildId), oldest first
    channels,     \* channels created through guild.channels.create
    tickets,      \* ticket records created through ticketRepo.createTicket
    turn,         \* each processMessage invocation: position and locals
    conf,         \* each handleTicketConfirmation invocation
    instanceOf,   \* the ChatbotService instance each invocation is made on
    scenario,     \* how many calls, failures and clock advances a run has
    clear,        \* the clearUserHistory invocation
    text,         \* argument of the splitResponse call under test
    chunks,       \* its return value
    splitPc       \* "ready" before the call, "done" after it

vars == << now, ticks, pending, failures, history, channels, tickets,
           turn, conf, instanceOf, scenario, clear, text, chunks, splitPc >>
splitVars == << text, chunks, splitPc >>
Calls == Turns \cup Confs

\* Invocations are interchangeable: they are numbered in the order they are
\* made.
CallOrder == << "t1", "t2" >> \o << "h1", "h2" >>
Earlier(c) ==
    {CallOrder[j] : j \in {i \in 1..Len(CallOrder) :
        \E k \in 1..Len(CallOrder) :
            /\ CallOrder[k] = c /\ i < k
            /\ (CallOrder[i] \in Turns) = (c \in Turns)}}

\* ------------------------------------------------- confirmation identifiers
RECURSIVE ToDecimal(_)
\* Number -> string conversion of a template literal: the decimal digits.
ToDecimal(n) ==
    IF n < 10 THEN << n >> ELSE Append(ToDecimal(n \div 10), n % 10)

RECURSIVE ParseInt(_)
\* parseInt on a string of decimal digits.
ParseInt(ds) ==
    IF Len(ds) = 0 THEN 0
    ELSE 10 * ParseInt(SubSeq(ds, 1, Len(ds) - 1)) + ds[Len(ds)]

\* `ticket_confirm_${userId}_${Date.now()}`, kept as its '_'-separated
\* segments (a user id is a decimal snowflake and holds no '_').
ConfirmationId(userId, t) == << "ticket", "confirm", userId, ToDecimal(t) >>

\* parseInt(key.split('_').pop() || '0')
KeyTimestamp(key) ==
    LET last == IF Len(key) = 0 THEN << >> ELSE key[Len(key)]
    IN  ParseInt(IF Len(last) = 0 THEN << 0 >> ELSE last)

\* ------------------------------------------------------- the pending ledger
\* Map.set
MapSet(m, k, v) == [x \in DOMAIN m \cup {k} |-> IF x = k THEN v ELSE m[x]]

\* Map.delete
MapDelete(m, k) == [x \in DOMAIN m \ {k} |-> m[x]]

\* A sweep that also drops an entry exactly five minutes old.
IsOldInclusive(key, t) == KeyTimestamp(key) <= t - FiveMinutes

\* The test of cleanupOldConfirmations: the key is older than five minutes.
IsOld(key, t) == KeyTimestamp(key) < t - FiveMinutes

\* cleanupOldConfirmations, run at clock value t on ledger m.
cleanupOldConfirmations(m, t) ==
    [k \in {x \in DOMAIN m : ~IsOld(x, t)} |-> m[k]]

EmptyMap == [k \in {} |-> Null]

\* ----------------------------------------------------- category resolution
RECURSIVE SelectSeq2(_, _)
\* Array.filter with the order kept (cat => cat.isEnabled, of one guild).
SelectSeq2(rows, guildId) ==
    IF Len(rows) = 0 THEN << >>
    ELSE LET r == rows[1]
             rest == SelectSeq2(Tail(rows), guildId)
         IN  IF r.guildId = guildId /\ r.isEnabled
             THEN << [id |-> r.id, name |-> r.name] >> \o rest
             ELSE rest

\* getTicketCategories: the enabled categories of the guild as {id, name},
\* in table order.
getTicketCategories(rows, guildId) == SelectSeq2(rows, guildId)

\* A resolution that takes the last category of the name.
FindCategoryLast(cats, name) ==
    LET hits == {i \in 1..Len(cats) : cats[i].name = name}
    IN  IF hits = {} THEN Null
        ELSE cats[CHOOSE i \in hits : \A j \in hits : i >= j].id

\* categories.find(cat => cat.name === args.ticket_category): the first
\* match in list order, Null when there is none.
FindCategory(cats, name) ==
    LET hits == {i \in 1..Len(cats) : cats[i].name = name}
    IN  IF hits = {} THEN Null
        ELSE cats[CHOOSE i \in hits : \A j \in hits : i <= j].id

NoCategory ==
    [id |-> Null, name |-> Null, guildId |-> Null, isEnabled |-> FALSE,
     supportRoleId |-> Null]

\* ticketRepo.getTicketCategory(id): the row of that id (enabled or not),
\* NoCategory (null) when the table holds none.
getTicketCategory(rows, id) ==
    LET hits == {i \in 1..Len(rows) : rows[i].id = id}
    IN  IF hits = {} THEN NoCategory
        ELSE rows[CHOOSE i \in hits : \A j \in hits : i <= j]

\* ------------------------------------------------------------ initial state
\* The runs explored: how many turns and confirmations are made, how many
\* collaborator calls throw and how often the clock is seen to advance.
Scenarios ==
    { [turns |-> Cardinality(Turns), confs |-> Cardinality(Confs),
       failures |-> 0, ticks |-> 0, clears |-> 0, instances |-> 1],
      [turns |-> Cardinality(Turns), confs |-> 1,
       failures |-> 0, ticks |-> MaxTicks, clears |-> 0, instances |-> 1],
      [turns |-> 1, confs |-> Cardinality(Confs),
       failures |-> MaxFailures, ticks |-> MaxTicks, clears |-> 0,
       instances |-> 1],
      [turns |-> Cardinality(Turns), confs |-> 0,
       failures |-> MaxFailures, ticks |-> MaxTicks, clears |-> 0,
       instances |-> 1],
      [turns |-> 1, confs |-> 1,
       failures |-> MaxFailures, ticks |-> 0, clears |-> 1,
       instances |-> Cardinality(Services)] }

\* The instance each invocation is made on: with one instance all are made
\* on s1, with two the confirmations are made on s2.
InstanceMap(instances) ==
    [c \in Calls |-> IF instances > 1 /\ c \in Confs THEN "s2" ELSE "s1"]

IdleClear == [pc |-> "idle", user |-> Null, guild |-> Null, result |-> Null]

IdleTurn ==
    [pc |-> "idle", user |-> Null, guild |-> Null,
     msg |-> Null, channel |-> Null, cats |-> << >>, rag |-> Null,
     categories |-> Null, tool |-> Null, toolCalls |-> 0, plainCalls |-> 0,
     writes |-> 0, overlapped |-> FALSE, category |-> Null,
     cid |-> NoId,
     content |-> Null, failed |-> Null, result |-> Null]

NoEntry ==
    [categoryId |-> Null, userMessage |-> Null, guildId |-> Null,
     channelId |-> Null, userId |-> Null, toolMessage |-> Null]

IdleConf ==
    [pc |-> "idle", id |-> NoId, confirmed |-> FALSE, found |-> FALSE,
     putsSeen |-> 0, entry |-> NoEntry, categoryFound |-> Null,
     supportRole |-> Null, channelId |-> 0, ticketNo |-> 0,
     failed |-> Null, success |-> FALSE, message |-> Null]

PipelineInit ==
    /\ now = StartTime
    /\ ticks = 0
    /\ pending = [s \in Services |-> EmptyMap]
    /\ failures = 0
    /\ history = [k \in Users \X Guilds |-> << >>]
    /\ channels = {}
    /\ tickets = << >>
    /\ turn = [t \in Turns |-> IdleTurn]
    /\ conf = [c \in Confs |-> IdleConf]
    /\ clear = IdleClear

\* -------------------------------------------------------------- environment
\* Date.now() is what the last reader saw plus what has passed since: two
\* reads may see one value, and the clock never runs backwards.  The passing
\* of time commutes with every step that does not read the clock, so it is
\* taken together with the step that reads it.
TimePasses(d) ==
    /\ d \in {0} \cup ClockSteps
    /\ d # 0 => ticks < scenario.ticks
    /\ now' = now + d
    /\ ticks' = IF d = 0 THEN ticks ELSE ticks + 1

\* A collaborator call throws (n = 1) or answers (n = 0).
Throws(n) ==
    /\ failures + n <= scenario.failures
    /\ failures' = failures + n

\* --------------------------------------------------------------- the catches
\* A processMessage that lets the exception go on to its caller.
ProcessMessageRethrow == "exception"

\* Lines 298-301: the catch of processMessage logs and returns null.
ProcessMessageCatch == "null"

\* Lines 443-446: the catch of handleTicketConfirmation.
ConfirmationCatch ==
    [success |-> FALSE, message |-> "An error occurred while creating the ticket."]

\* Lines 538-541: the catch of clearUserHistory logs and returns false.
ClearCatch == "false"

\* ------------------------------------------------------------ processMessage
\* The turn returns: its locals are dropped, its return value stays.
Return(t, value, why) ==
    [turn[t] EXCEPT !.pc = "done", !.cats = << >>, !.msg = Null,
                    !.channel = Null, !.category = Null,
                    !.result = value, !.failed = why]

\* Users are interchangeable: the user of the first turn is called u1.
FirstUser == "u1"

\* A searchRagContext without the catch of lines 80-83: the exception goes
\* on to the caller.
searchRagContextThrowing(retrieval) ==
    IF retrieval = "thrown" THEN "error" ELSE "context"

\* Lines 54-84: searchRagContext answers a context (or null when the guild
\* has no data) and, when hasRagData, getQueryEmbedding or
\* searchSimilarChunks throws, catches the exception and answers null.
searchRagContext(retrieval) ==
    IF retrieval = "thrown" THEN Null ELSE "context"

\* The test of line 190 the wrong way round.
FirstStageInverted(cats) == IF Len(cats) > 0 THEN "stage2" ELSE "stage1"

\* A turn that enters stage 1 whatever the category list holds.
FirstStageAlwaysTools(cats) == "stage1"

\* Line 190: if (categories.length > 0)
FirstStage(cats) == IF Len(cats) > 0 THEN "stage1" ELSE "stage2"

\* The turn is started while another turn of the same user and guild is
\* under way: the caller has not serialized them.
Overlaps(t, u, g) ==
    \E t0 \in Turns \ {t} :
        /\ turn[t0].pc \notin {"idle", "done"}
        /\ turn[t0].user = u /\ turn[t0].guild = g

\* Lines 176-190: the call, searchRagContext (which catches its own failures
\* and answers null), getTicketCategories (which catches its own failures
\* and answers []), and the choice of the first stage.
StartTurn(t) ==
    /\ turn[t].pc = "idle"
    /\ \A t0 \in Earlier(t) : turn[t0].pc # "idle"
    /\ Cardinality(Earlier(t)) < scenario.turns
    /\ \E u \in Users, g \in Guilds, m \in UserMessages, ch \in ChannelIds,
          rag \in {"answered", "thrown"}, table \in CategoryTables,
          lookup \in {"rows", "thrown"} :
          LET cats == IF lookup = "thrown" THEN << >>
                      ELSE getTicketCategories(table, g)
          IN  /\ Earlier(t) = {} => u = FirstUser
              /\ lookup = "thrown" => table = << >>
              /\ Throws((IF rag = "thrown" THEN 1 ELSE 0)
                        + (IF lookup = "thrown" THEN 1 ELSE 0))
              /\ turn' = [turn EXCEPT ![t] =
                    IF searchRagContext(rag) = "error"
                    THEN [Return(t, ProcessMessageCatch, "retrieval")
                            EXCEPT !.user = u, !.guild = g, !.rag = rag]
                    ELSE [@ EXCEPT !.pc = FirstStage(cats),
                                   !.user = u, !.guild = g, !.msg = m,
                                   !.channel = ch, !.rag = rag, !.cats = cats,
                                   !.overlapped = Overlaps(t, u, g),
                                   !.categories = IF Len(cats) > 0 THEN "some"
                                                  ELSE "none"]]
    /\ UNCHANGED << now, ticks, pending, history, channels, tickets, conf,
                    instanceOf, scenario, clear, splitVars >>

\* What the tool-enabled llm.invoke can come back with: an exception, no
\* tool call, a call of another function, or a create_ticket call whose
\* arguments string is not JSON, is the JSON literal null, or is an object.
ToolResponses ==
    {[kind |-> k, category |-> Null, message |-> Null] :
        k \in {"thrown", "no_tool_call", "other_tool", "malformed_json",
               "json_null"}}
    \cup {[kind |-> "create_ticket", category |-> n, message |-> m] :
            n \in ToolCategoryNames, m \in ToolMessages}

\* Lines 221-229: the entry a tool-triggered turn records.
PendingEntry(t, categoryId, message) ==
    [categoryId |-> categoryId,
     userMessage |-> turn[t].msg,
     guildId |-> turn[t].guild,
     channelId |-> turn[t].channel,
     userId |-> turn[t].user,
     toolMessage |-> IF message = Null
                     THEN "A ticket will be created to assist you with your request."
                     ELSE message]

\* A creation that is recorded without the sweep of line 255.
RecordPendingUnswept(m, t, at, categoryId, message) ==
    MapSet(m, ConfirmationId(turn[t].user, at),
           PendingEntry(t, categoryId, message))

\* Lines 221-255 on the ledger, at clock value t: the put under the id made
\* of the user and the clock, then the sweep.
RecordPending(m, t, at, categoryId, message) ==
    cleanupOldConfirmations(
        MapSet(m, ConfirmationId(turn[t].user, at),
               PendingEntry(t, categoryId, message)),
        at)

\* A stage 1 that answers a failed tool-enabled call with the plain call.
ToolStageOutcomeFallback(r, chosen) ==
    CASE r.kind = "thrown" -> "plain"
      [] r.kind \in {"malformed_json", "json_null"} -> "error"
      [] r.kind \in {"no_tool_call", "other_tool"} -> "plain"
      [] r.kind = "create_ticket" -> IF chosen = Null THEN "plain" ELSE "pending"

\* Stage 1 without the `if (category)` guard of line 220.
ToolStageOutcomeUnguarded(r, chosen) ==
    CASE r.kind = "thrown" -> "error"
      [] r.kind \in {"malformed_json", "json_null"} -> "error"
      [] r.kind \in {"no_tool_call", "other_tool"} -> "plain"
      [] r.kind = "create_ticket" -> "pending"

\* Lines 211-220: what stage 1 does with the model's answer r, chosen being
\* the category its ticket_category resolves to.  "error": an exception
\* reaches the catch of line 298; "plain": on to stage 2; "pending": the
\* confirmation is recorded.
ToolStageOutcome(r, chosen) ==
    CASE r.kind = "thrown" -> "error"
      [] r.kind \in {"malformed_json", "json_null"} -> "error"
      [] r.kind \in {"no_tool_call", "other_tool"} -> "plain"
      [] r.kind = "create_ticket" -> IF chosen = Null THEN "plain" ELSE "pending"

\* What the turn remembers of the model's stage-1 answer.
ToolAnswer(r, chosen) ==
    IF r.kind = "create_ticket"
    THEN IF chosen = Null THEN "unmatched_category" ELSE "create_ticket"
    ELSE r.kind

\* Lines 190-268: stage 1.  chatHistory.getHistory, the tool-enabled
\* llm.invoke and everything up to the next await (line 257) or return.
Stage1(t) ==
    /\ turn[t].pc = "stage1"
    /\ \/ \* getHistory throws: caught at line 298
          /\ Throws(1)
          /\ turn' = [turn EXCEPT ![t] = Return(t, ProcessMessageCatch, "history_read")]
          /\ UNCHANGED << now, ticks, pending >>
       \/ \E r \in ToolResponses, d \in {0} \cup ClockSteps :
             LET chosen == FindCategory(turn[t].cats, r.category)
                 outcome == ToolStageOutcome(r, chosen)
                 called == [turn[t] EXCEPT !.toolCalls = @ + 1, !.cats = << >>,
                                           !.tool = ToolAnswer(r, chosen)]
             IN  /\ outcome # "pending" => d = 0
                 /\ TimePasses(d)
                 /\ Throws(IF r.kind = "thrown" THEN 1 ELSE 0)
                 /\ CASE outcome = "error" ->
                        /\ turn' = [turn EXCEPT ![t] =
                              [Return(t, ProcessMessageCatch,
                                      IF r.kind = "thrown" THEN "llm"
                                                 ELSE "tool_arguments")
                                 EXCEPT !.toolCalls = @ + 1,
                                        !.tool = ToolAnswer(r, chosen)]]
                        /\ UNCHANGED pending
                   [] outcome = "plain" ->
                        /\ turn' = [turn EXCEPT ![t] = [called EXCEPT !.pc = "stage2"]]
                        /\ UNCHANGED pending
                   [] outcome = "pending" ->
                        /\ pending' = [pending EXCEPT ![instanceOf[t]] =
                              RecordPending(@, t, now', chosen, r.message)]
                        /\ turn' = [turn EXCEPT ![t] =
                              [called EXCEPT !.pc = "marker_user",
                                             !.cats = turn[t].cats,
                                             !.category = r.category,
                                             !.cid = ConfirmationId(turn[t].user, now')]]
    /\ UNCHANGED << history, channels, tickets, conf, instanceOf, scenario,
                    clear, splitVars >>

\* A history that takes the new message in front of the older ones.
AppendHistoryFront(t, role, content) ==
    [history EXCEPT ![<< turn[t].user, turn[t].guild >>] =
        << [role |-> role, content |-> content] >> \o @]

\* chatHistory.addUserMessage / addAssistantMessage on the turn's history.
AppendHistory(t, role, content) ==
    [history EXCEPT ![<< turn[t].user, turn[t].guild >>] =
        Append(@, [role |-> role, content |-> content])]

\* `[Ticket creation requested for: ${args.ticket_category}]`
Marker(category) == << "[Ticket creation requested for: ", category, "]" >>

\* Line 257: await chatHistory.addUserMessage(userMessage).
MarkerUser(t) ==
    /\ turn[t].pc = "marker_user"
    /\ \/ /\ Throws(0)
          /\ history' = AppendHistory(t, "user", << turn[t].msg >>)
          /\ turn' = [turn EXCEPT ![t].pc = "marker_assistant",
                                  ![t].writes = @ + 1]
       \/ /\ Throws(1)
          /\ turn' = [turn EXCEPT ![t] = Return(t, ProcessMessageCatch, "history_write")]
          /\ UNCHANGED history
    /\ UNCHANGED << now, ticks, pending, channels, tickets, conf, instanceOf,
                    scenario, clear, splitVars >>

\* Lines 258-264: await chatHistory.addAssistantMessage(marker), then the
\* needsConfirmation result.
MarkerAssistant(t) ==
    /\ turn[t].pc = "marker_assistant"
    /\ \/ /\ Throws(0)
          /\ history' = AppendHistory(t, "assistant", Marker(turn[t].category))
          /\ turn' = [turn EXCEPT ![t] =
                [Return(t, "needsConfirmation", Null) EXCEPT !.writes = @ + 1]]
       \/ /\ Throws(1)
          /\ turn' = [turn EXCEPT ![t] = Return(t, ProcessMessageCatch, "history_write")]
          /\ UNCHANGED history
    /\ UNCHANGED << now, ticks, pending, channels, tickets, conf, instanceOf,
                    scenario, clear, splitVars >>

\* response.choices[0]?.message?.content of the plain call: missing, empty
\* or a text.
PlainContents == {"undefined", "", "Here is what I found."}

\* A test that takes the empty string for content.
HasContentOrEmpty(c) == c # "undefined"

\* Line 288: if (!assistantMessage) - neither undefined nor the empty string.
HasContent(c) == c \notin {"undefined", ""}

\* Lines 270-291: stage 2.  getHistory, the plain llm.invoke and the test of
\* its content.
Stage2(t) ==
    /\ turn[t].pc = "stage2"
    /\ \/ /\ Throws(1)
          /\ turn' = [turn EXCEPT ![t] = Return(t, ProcessMessageCatch, "history_read")]
       \/ /\ Throws(1)
          /\ turn' = [turn EXCEPT ![t] =
                [Return(t, ProcessMessageCatch, "llm") EXCEPT !.plainCalls = @ + 1]]
       \/ /\ Throws(0)
          /\ \E c \in PlainContents :
                turn' = [turn EXCEPT ![t] =
                   IF ~HasContent(c)
                   THEN [Return(t, "null", "no_content") EXCEPT !.plainCalls = @ + 1]
                   ELSE [@ EXCEPT !.pc = "reply_user", !.plainCalls = @ + 1,
                                  !.content = c]]
    /\ UNCHANGED << now, ticks, pending, history, channels, tickets, conf,
                    instanceOf, scenario, clear, splitVars >>

\* Line 293: await chatHistory.addUserMessage(userMessage).
ReplyUser(t) ==
    /\ turn[t].pc = "reply_user"
    /\ \/ /\ Throws(0)
          /\ history' = AppendHistory(t, "user", << turn[t].msg >>)
          /\ turn' = [turn EXCEPT ![t].pc = "reply_assistant",
                                  ![t].writes = @ + 1]
       \/ /\ Throws(1)
          /\ turn' = [turn EXCEPT ![t] =
                [Return(t, ProcessMessageCatch, "history_write") EXCEPT !.content = Null]]
          /\ UNCHANGED history
    /\ UNCHANGED << now, ticks, pending, channels, tickets, conf, instanceOf,
                    scenario, clear, splitVars >>

\* Lines 294-296: await chatHistory.addAssistantMessage(assistantMessage),
\* then {response: assistantMessage}.
ReplyAssistant(t) ==
    /\ turn[t].pc = "reply_assistant"
    /\ \/ /\ Throws(0)
          /\ history' = AppendHistory(t, "assistant", << turn[t].content >>)
          /\ turn' = [turn EXCEPT ![t] =
                [Return(t, "response", Null) EXCEPT !.writes = @ + 1]]
       \/ /\ Throws(1)
          /\ turn' = [turn EXCEPT ![t] =
                [Return(t, ProcessMessageCatch, "history_write") EXCEPT !.content = Null]]
          /\ UNCHANGED history
    /\ UNCHANGED << now, ticks, pending, channels, tickets, conf, instanceOf,
                    scenario, clear, splitVars >>

\* -------------------------------------------------- handleTicketConfirmation
\* The call returns {success, message}.
Answer(c, success, message, why) ==
    [conf[c] EXCEPT !.pc = "done", !.entry = NoEntry, !.supportRole = Null,
                    !.success = success, !.message = message, !.failed = why]

\* The messages of lines 317, 323 and 330.
ExpiredMessage == "Ticket creation request has expired or is invalid."
CancelledMessage == "Ticket creation has been cancelled."
NoCategoryMessage == "The selected ticket category no longer exists."

\* Ids a caller may pass: any id some turn has generated, and one that no
\* turn ever generates.
KnownIds == {turn[t].cid : t \in Turns} \ {NoId}
ForeignId == ConfirmationId("u0", 0)

\* A resolver that tests the accept flag before the lookup's result.
LookupOutcomeCancelFirst(found, confirmed) ==
    IF ~confirmed THEN "cancelled"
    ELSE IF ~found THEN "expired"
    ELSE "proceed"

\* Lines 315-324: what the resolver does once it has looked the id up.
LookupOutcome(found, confirmed) ==
    IF ~found THEN "expired"
    ELSE IF ~confirmed THEN "cancelled"
    ELSE "proceed"

\* Map.clear in the place of Map.delete.
ConsumeAll(m, id) == EmptyMap

\* Line 320 on the ledger.
Consume(m, id) == MapDelete(m, id)

\* How many turns have recorded a pending creation so far.
PutsSoFar == Cardinality({t \in Turns : turn[t].cid # NoId})

\* Lines 314-324: the call, the lookup, the delete and the cancel branch,
\* with no await between them.
Lookup(c) ==
    /\ conf[c].pc = "idle"
    /\ \A c0 \in Earlier(c) : conf[c0].pc # "idle"
    /\ Cardinality(Earlier(c)) < scenario.confs
    /\ \E id \in KnownIds \cup {ForeignId}, confirmed \in BOOLEAN,
          d \in {0} \cup ClockSteps :
          LET s == instanceOf[c]
              found == id \in DOMAIN pending[s]
              outcome == LookupOutcome(found, confirmed)
              called == [conf[c] EXCEPT !.id = id, !.confirmed = confirmed,
                                        !.found = found, !.putsSeen = PutsSoFar]
          IN  /\ TimePasses(d)
              /\ pending' = IF outcome = "expired" THEN pending
                            ELSE [pending EXCEPT ![s] = Consume(@, id)]
              /\ conf' = [conf EXCEPT ![c] =
                    CASE outcome = "expired" ->
                           [called EXCEPT !.pc = "done", !.success = FALSE,
                                          !.message = ExpiredMessage]
                      [] outcome = "cancelled" ->
                           [called EXCEPT !.pc = "done", !.success = TRUE,
                                          !.message = CancelledMessage]
                      [] outcome = "proceed" ->
                           [called EXCEPT !.pc = "category",
                                          !.entry = IF found THEN pending[s][id]
                                                    ELSE NoEntry]]
    /\ UNCHANGED << failures, history, channels, tickets, turn, instanceOf,
                    scenario, clear, splitVars >>

\* A resolver without the `if (!category)` test of line 329.
CategoryOutcomeUnchecked(categoryFound, guildCached) ==
    IF ~guildCached THEN "no_server" ELSE "proceed"

\* Lines 329-336: what the resolver does with the category row and the
\* guild it has looked up.
CategoryOutcome(categoryFound, guildCached) ==
    IF ~categoryFound THEN "no_category"
    ELSE IF ~guildCached THEN "no_server"
    ELSE "proceed"

\* Lines 326-336: await ticketRepo.getTicketCategory, then the guild lookup
\* in the client's cache (the bot may have left the guild).
LookupCategory(c) ==
    /\ conf[c].pc = "category"
    /\ \/ /\ Throws(1)
          /\ conf' = [conf EXCEPT ![c] =
                Answer(c, ConfirmationCatch.success, ConfirmationCatch.message,
                       "category_lookup")]
       \/ /\ Throws(0)
          /\ \E table \in CategoryTables, guildCached \in BOOLEAN :
                LET category == getTicketCategory(table, conf[c].entry.categoryId)
                    outcome == CategoryOutcome(category.id # Null, guildCached)
                    exists == IF category.id # Null THEN "yes" ELSE "no"
                IN  conf' = [conf EXCEPT ![c] =
                       CASE outcome = "no_category" ->
                              [Answer(c, FALSE, NoCategoryMessage, Null)
                                 EXCEPT !.categoryFound = exists]
                         [] outcome = "no_server" ->
                              [Answer(c, FALSE, "Server not found.", Null)
                                 EXCEPT !.categoryFound = exists]
                         [] outcome = "proceed" ->
                              [@ EXCEPT !.pc = "channel", !.categoryFound = exists,
                                        !.supportRole = category.supportRoleId]]
    /\ UNCHANGED << now, ticks, pending, history, channels, tickets, turn,
                    instanceOf, scenario, clear, splitVars >>

\* Lines 338-366: await guild.channels.create.
CreateChannel(c) ==
    /\ conf[c].pc = "channel"
    /\ \/ /\ Throws(1)
          /\ conf' = [conf EXCEPT ![c] =
                Answer(c, ConfirmationCatch.success, ConfirmationCatch.message,
                       "channel_create")]
          /\ UNCHANGED channels
       \/ LET id == Cardinality(channels) + 1
          IN  /\ Throws(0)
              /\ channels' = channels \cup {id}
              /\ conf' = [conf EXCEPT ![c].pc = "ticket", ![c].channelId = id]
    /\ UNCHANGED << now, ticks, pending, history, tickets, turn, instanceOf,
                    scenario, clear, splitVars >>

\* createTicket called with userId and guildId in each other's place.
TicketRecordSwapped(entry, channelId, no) ==
    [guildId |-> entry.userId,
     userId |-> entry.guildId,
     channelId |-> channelId,
     categoryId |-> entry.categoryId,
     ticketNumber |-> no]

\* Lines 368-373: the record ticketRepo.createTicket(guildId, userId,
\* channel id, categoryId) stores for a pending creation, under number no.
TicketRecord(entry, channelId, no) ==
    [guildId |-> entry.guildId,
     userId |-> entry.userId,
     channelId |-> channelId,
     categoryId |-> entry.categoryId,
     ticketNumber |-> no]

\* Lines 368-373: await ticketRepo.createTicket.
CreateTicket(c) ==
    /\ conf[c].pc = "ticket"
    /\ \/ /\ Throws(1)
          /\ conf' = [conf EXCEPT ![c] =
                Answer(c, ConfirmationCatch.success, ConfirmationCatch.message,
                       "ticket_create")]
          /\ UNCHANGED tickets
       \/ LET no == Len(tickets) + 1
          IN  /\ Throws(0)
              /\ tickets' = Append(tickets,
                    TicketRecord(conf[c].entry, conf[c].channelId, no))
              /\ conf' = [conf EXCEPT ![c].pc = "setup", ![c].ticketNo = no]
    /\ UNCHANGED << now, ticks, pending, history, channels, turn, instanceOf,
                    scenario, clear, splitVars >>

\* Lines 375-446: await setName, the guarded permissionOverwrites.create
\* (lines 378-391, its failure only logged), await send, and the result.
SetupChannel(c) ==
    /\ conf[c].pc = "setup"
    /\ \/ /\ Throws(1)
          /\ conf' = [conf EXCEPT ![c] =
                Answer(c, ConfirmationCatch.success, ConfirmationCatch.message,
                       "set_name")]
       \/ /\ Throws(1)
          /\ conf' = [conf EXCEPT ![c] =
                Answer(c, ConfirmationCatch.success, ConfirmationCatch.message,
                       "send")]
       \/ /\ conf[c].supportRole # Null
          /\ Throws(1)
          /\ conf' = [conf EXCEPT ![c] =
                Answer(c, TRUE, "Ticket created successfully!", "support_role")]
       \/ /\ Throws(0)
          /\ conf' = [conf EXCEPT ![c] =
                Answer(c, TRUE, "Ticket created successfully!", Null)]
    /\ UNCHANGED << now, ticks, pending, history, channels, tickets, turn,
                    instanceOf, scenario, clear, splitVars >>

\* ---------------------------------------------------------- clearUserHistory
\* Lines 533-542: await chatHistory.clearHistory(false) on the history of
\* (userId, guildId), which empties it; true, or false when it throws.
clearUserHistory ==
    /\ clear.pc = "idle"
    /\ scenario.clears > 0
    /\ \E u \in Users, g \in Guilds :
          \/ /\ Throws(0)
             /\ history' = [history EXCEPT ![<< u, g >>] = << >>]
             /\ clear' = [pc |-> "done", user |-> u, guild |-> g,
                          result |-> "true"]
          \/ /\ Throws(1)
             /\ UNCHANGED history
             /\ clear' = [pc |-> "done", user |-> u, guild |-> g,
                          result |-> ClearCatch]
    /\ UNCHANGED << now, ticks, pending, channels, tickets, turn, conf,
                    instanceOf, scenario, splitVars >>

\* ------------------------------------------------------------ splitResponse
\* A string is kept as its characters in order, a maximal run of one letter
\* being one element [c |-> letter, n |-> length of the run]; a space, a
\* line feed and a full stop are elements of their own (n = 1).
Space == [c |-> " ", n |-> 1]
Newline == [c |-> "\n", n |-> 1]
Dot == [c |-> ".", n |-> 1]
Separators == {Space, Newline, Dot}
IsLetters(e) == e \notin Separators

RECURSIVE StrLen(_)
\* String.length
StrLen(str) == IF Len(str) = 0 THEN 0 ELSE str[1].n + StrLen(Tail(str))

\* a + b
Concat(a, b) ==
    IF Len(a) > 0 /\ Len(b) > 0 /\ IsLetters(a[Len(a)]) /\ IsLetters(b[1])
       /\ a[Len(a)].c = b[1].c
    THEN SubSeq(a, 1, Len(a) - 1)
         \o << [c |-> b[1].c, n |-> a[Len(a)].n + b[1].n] >> \o Tail(b)
    ELSE a \o b

\* The characters String.trim removes.
IsWhitespace(e) == e \in {Space, Newline}

RECURSIVE TrimStart(_)
TrimStart(str) ==
    IF Len(str) > 0 /\ IsWhitespace(str[1]) THEN TrimStart(Tail(str)) ELSE str

RECURSIVE TrimEnd(_)
TrimEnd(str) ==
    IF Len(str) > 0 /\ IsWhitespace(str[Len(str)])
    THEN TrimEnd(SubSeq(str, 1, Len(str) - 1)) ELSE str

\* String.trim
Trim(str) == TrimEnd(TrimStart(str))

\* Whether separator sep starts at position i of str.
StartsAt(str, sep, i) ==
    /\ i + Len(sep) - 1 <= Len(str)
    /\ \A k \in 1..Len(sep) : str[i + k - 1] = sep[k]

RECURSIVE SplitFrom(_, _, _, _)
\* String.split(sep) from position i on, piece being the characters of the
\* current piece read so far: separators are matched left to right.
SplitFrom(str, sep, i, piece) ==
    IF i > Len(str) THEN << piece >>
    ELSE IF StartsAt(str, sep, i)
    THEN << piece >> \o SplitFrom(str, sep, i + Len(sep), << >>)
    ELSE SplitFrom(str, sep, i + 1, Append(piece, str[i]))

\* String.split(sep)
Split(str, sep) == SplitFrom(str, sep, 1, << >>)

\* const maxLength = 2000
maxLength == 2000

\* if (currentChunk) { chunks.push(currentChunk.trim()); currentChunk = '' }
Flush(st) ==
    IF Len(st.cur) > 0
    THEN [chunks |-> Append(st.chunks, Trim(st.cur)), cur |-> << >>]
    ELSE st

RECURSIVE WordLoop(_, _)
\* Lines 496-504: the loop over the words of an over-long sentence.
WordLoop(words, st) ==
    IF Len(words) = 0 THEN st
    ELSE LET word == words[1]
             st1 == IF StrLen(Concat(Concat(st.cur, word), << Space >>)) > maxLength
                    THEN Flush(st) ELSE st
         IN  WordLoop(Tail(words),
                      [st1 EXCEPT !.cur = Concat(Concat(@, word), << Space >>)])

RECURSIVE SentenceLoop(_, _)
\* Lines 488-511: the loop over the sentences of an over-long paragraph.
SentenceLoop(sentences, st) ==
    IF Len(sentences) = 0 THEN st
    ELSE LET sentence == sentences[1]
             ended == Concat(sentence, << Dot, Space >>)
             st1 == IF StrLen(Concat(st.cur, ended)) > maxLength
                    THEN LET st2 == Flush(st)
                         IN  IF StrLen(sentence) > maxLength
                             THEN WordLoop(Split(sentence, << Space >>), st2)
                             ELSE [st2 EXCEPT !.cur = ended]
                    ELSE [st EXCEPT !.cur = Concat(@, ended)]
         IN  SentenceLoop(Tail(sentences), st1)

RECURSIVE ParagraphLoop(_, _)
\* Lines 479-518: the loop over the paragraphs.
ParagraphLoop(paragraphs, st) ==
    IF Len(paragraphs) = 0 THEN st
    ELSE LET paragraph == paragraphs[1]
             ended == Concat(paragraph, << Newline, Newline >>)
             st1 == IF StrLen(Concat(st.cur, paragraph)) > maxLength
                    THEN LET st2 == Flush(st)
                         IN  IF StrLen(paragraph) > maxLength
                             THEN SentenceLoop(Split(paragraph, << Dot, Space >>), st2)
                             ELSE [st2 EXCEPT !.cur = ended]
                    ELSE [st EXCEPT !.cur = Concat(@, ended)]
         IN  ParagraphLoop(Tail(paragraphs), st1)

\* A fast path that leaves out a text of exactly maxLength characters.
FitsOneChunkStrict(response) == StrLen(response) < maxLength

\* Line 472: response.length <= maxLength
FitsOneChunk(response) == StrLen(response) <= maxLength

\* Lines 468-525.
splitResponse(response) ==
    IF FitsOneChunk(response) THEN << response >>
    ELSE LET st == ParagraphLoop(Split(response, << Newline, Newline >>),
                                 [chunks |-> << >>, cur |-> << >>])
         IN  IF Len(Trim(st.cur)) > 0
             THEN Append(st.chunks, Trim(st.cur))
             ELSE st.chunks

\* The call under test.
SplitCall ==
    /\ splitPc = "ready"
    /\ chunks' = splitResponse(text)
    /\ splitPc' = "done"
    /\ UNCHANGED << now, ticks, pending, failures, history, channels, tickets,
                    turn, conf, instanceOf, scenario, clear, text >>

\* Texts the chunker is called with: up to MaxElements elements, each a
\* separator or a run of letters of one of WordLengths.
MaxElements == 4
WordLengths == {1, 999, 1999, 2001}
Elements == Separators \cup {[c |-> "a", n |-> k] : k \in WordLengths}

RECURSIVE Join(_)
Join(es) == IF Len(es) = 0 THEN << >> ELSE Concat(<< es[1] >>, Join(Tail(es)))

Texts == UNION {{Join(es) : es \in [1..k -> Elements]} : k \in 0..MaxElements}

\* ------------------------------------------------------------ specification
Next ==
    \/ \E t \in Turns : StartTurn(t)
    \/ \E t \in Turns : Stage1(t)
    \/ \E t \in Turns : MarkerUser(t)
    \/ \E t \in Turns : MarkerAssistant(t)
    \/ \E t \in Turns : Stage2(t)
    \/ \E t \in Turns : ReplyUser(t)
    \/ \E t \in Turns : ReplyAssistant(t)
    \/ \E c \in Confs : Lookup(c)
    \/ \E c \in Confs : LookupCategory(c)
    \/ \E c \in Confs : CreateChannel(c)
    \/ \E c \in Confs : CreateTicket(c)
    \/ \E c \in Confs : SetupChannel(c)
    \/ clearUserHistory

Init ==
    /\ PipelineInit
    /\ scenario \in Scenarios
    /\ instanceOf = InstanceMap(scenario.instances)
    /\ text = << >>
    /\ chunks = << >>
    /\ splitPc = "ready"

Spec == Init /\ [][Next]_vars

\* The chunker alone, on every text of Texts.
SplitInit ==
    /\ PipelineInit
    /\ scenario = [turns |-> 0, confs |-> 0, failures |-> 0, ticks |-> 0,
                   clears |-> 0, instances |-> 1]
    /\ instanceOf = InstanceMap(scenario.instances)
    /\ text \in Texts
    /\ chunks = << >>
    /\ splitPc = "ready"

SplitNext == SplitCall

SplitSpec == SplitInit /\ [][SplitNext]_vars

\* ------------------------------------------------------------------ properties
\* The confirmation calls that found their id in the ledger.
Consumed(c) == conf[c].pc # "idle" /\ conf[c].found

\* The confirmation call reported "expired" and created nothing.
Expired(c) ==
    /\ conf[c].pc = "done"
    /\ ~conf[c].success
    /\ conf[c].message = ExpiredMessage
    /\ conf[c].channelId = 0
    /\ conf[c].ticketNo = 0

\* C1: each confirmationId leads to at most one created ticket: once a call
\* with accept=true has consumed the entry of an id, every later confirmation
\* call with that id reports "expired" and creates no channel and no ticket.
C1_AtMostOneTicketPerId ==
    \A c1 \in Confs, c2 \in Confs :
        /\ c1 \in Earlier(c2)
        /\ Consumed(c1) /\ conf[c1].confirmed
        /\ conf[c2].pc # "idle"
        /\ conf[c2].id = conf[c1].id
        => Expired(c2)

\* C2: a turn whose stage-1 answer is a create_ticket call with arguments
\* that are not valid JSON does not fail on it: it makes the plain call, and
\* when that call answers with a text the turn returns it.
C2_MalformedJsonFallsThrough ==
    \A t \in Turns :
        turn[t].tool = "malformed_json" /\ turn[t].pc = "done"
        => /\ turn[t].plainCalls = 1
           /\ turn[t].failed # "tool_arguments"

\* C3: a turn whose stage-1 tool call names a category that matches no
\* enabled category of the guild records no pending entry and persists
\* nothing in stage 1, goes on to the plain call, and returns that call's
\* non-empty content as {response}: never needsConfirmation, and null only
\* when a collaborator fails or the plain call has no content.
C3_UnmatchedState ==
    \A t \in Turns :
        turn[t].tool = "unmatched_category"
        => /\ turn[t].cid = NoId
           /\ turn[t].pc \in {"stage2", "reply_user", "reply_assistant", "done"}
           /\ turn[t].result # "needsConfirmation"
           /\ turn[t].pc \in {"reply_user", "reply_assistant"}
              => turn[t].plainCalls = 1
           /\ turn[t].pc = "done"
              => /\ turn[t].plainCalls = 1 \/ turn[t].failed = "history_read"
                 /\ turn[t].failed = Null
                    => /\ turn[t].result = "response"
                       /\ turn[t].content \in PlainContents \ {"undefined", ""}
                 /\ turn[t].result = "null" => turn[t].failed # Null

C3_UnmatchedStep ==
    \A t \in Turns :
        turn[t].tool = Null /\ turn'[t].tool = "unmatched_category"
        => /\ pending' = pending
           /\ history' = history
           /\ turn'[t].pc = "stage2"

C3_UnmatchedCategoryFallsThrough == [][C3_UnmatchedStep]_vars /\ []C3_UnmatchedState

C3_Witness ==
    \E t \in Turns :
        /\ turn[t].tool = "unmatched_category"
        /\ turn[t].pc = "done"
        /\ turn[t].result = "response"

\* C4: tickets are created only by a confirmation call with accept=true whose
\* id was in the ledger when it was looked up; no step of a turn creates a
\* channel or a ticket, and a tool-triggered turn records a pending entry and
\* returns needsConfirmation.  Every ticket is preceded by a tool-triggered
\* put of the same id and carries the guildId, userId and categoryId of the
\* entry that was consumed.
C4_TicketState ==
    /\ \A i \in 1..Len(tickets) : \E c \in Confs : conf[c].ticketNo = i
    /\ \A c \in Confs :
          conf[c].ticketNo # 0
          => /\ conf[c].confirmed /\ conf[c].found
             /\ conf[c].channelId \in channels
             /\ tickets[conf[c].ticketNo].channelId = conf[c].channelId
             /\ \E t \in Turns :
                   /\ turn[t].tool = "create_ticket"
                   /\ turn[t].cid = conf[c].id
                   /\ tickets[conf[c].ticketNo].userId = turn[t].user
                   /\ tickets[conf[c].ticketNo].guildId = turn[t].guild
             /\ conf[c].pc = "setup"
                => /\ tickets[conf[c].ticketNo].guildId = conf[c].entry.guildId
                   /\ tickets[conf[c].ticketNo].userId = conf[c].entry.userId
                   /\ tickets[conf[c].ticketNo].categoryId = conf[c].entry.categoryId
    /\ \A t \in Turns :
          /\ turn[t].result = "needsConfirmation"
             => turn[t].tool = "create_ticket" /\ turn[t].cid # NoId
          /\ turn[t].tool = "create_ticket" /\ turn[t].pc = "done"
             /\ turn[t].failed = Null
             => turn[t].result = "needsConfirmation"

C4_TicketStep ==
    /\ turn' # turn => tickets' = tickets /\ channels' = channels
    /\ tickets' # tickets
       => /\ Len(tickets') = Len(tickets) + 1
          /\ SubSeq(tickets', 1, Len(tickets)) = tickets
          /\ \E c \in Confs :
                /\ conf[c].confirmed /\ conf[c].found
                /\ conf[c].ticketNo = 0 /\ conf'[c].ticketNo = Len(tickets')
    /\ \A c \in Confs :
          conf[c].pc = "idle" /\ conf'[c].pc = "category"
          => /\ conf'[c].id \in DOMAIN pending[instanceOf[c]]
             /\ conf'[c].entry = pending[instanceOf[c]][conf'[c].id]
    /\ \A t \in Turns :
          turn[t].cid = NoId /\ turn'[t].cid # NoId
          => /\ turn'[t].cid \in DOMAIN pending'[instanceOf[t]]
             /\ pending'[instanceOf[t]][turn'[t].cid].userId = turn[t].user
             /\ pending'[instanceOf[t]][turn'[t].cid].guildId = turn[t].guild

C4_TicketsOnlyByConfirmation == [][C4_TicketStep]_vars /\ []C4_TicketState

C4_Witness ==
    \E c \in Confs :
        /\ conf[c].pc = "setup"
        /\ conf[c].ticketNo # 0
        /\ \E t \in Turns : turn[t].cid = conf[c].id
                            /\ turn[t].result = "needsConfirmation"

\* C5: a confirmation call with an id that is not in the ledger reports
\* "expired or is invalid" with success=false whatever the accept flag, and
\* changes nothing: the ledger, the channels, the tickets and the histories
\* stay as they are and the call ends without a category lookup.
C5_UnknownIdStep ==
    \A c \in Confs :
        /\ conf[c].pc = "idle" /\ conf'[c].pc # "idle"
        /\ conf'[c].id \notin DOMAIN pending[instanceOf[c]]
        => /\ conf'[c].pc = "done"
           /\ ~conf'[c].success
           /\ conf'[c].message = ExpiredMessage
           /\ conf'[c].channelId = 0 /\ conf'[c].ticketNo = 0
           /\ pending' = pending
           /\ channels' = channels
           /\ tickets' = tickets
           /\ history' = history

C5_UnknownIdExpired == [][C5_UnknownIdStep]_vars

C5_Witness ==
    \E c \in Confs, t \in Turns :
        /\ Expired(c)
        /\ ~conf[c].confirmed
        /\ conf[c].id = turn[t].cid
        /\ DOMAIN pending[instanceOf[c]] # {}

\* C6: a confirmation call with an id that is in the ledger and accept=false
\* removes that entry and no other, leaves the other entries as they are,
\* reports "cancelled" and creates no channel and no ticket.
C6_CancelStep ==
    \A c \in Confs :
        LET s == instanceOf[c] IN
        /\ conf[c].pc = "idle" /\ conf'[c].pc # "idle"
        /\ conf'[c].id \in DOMAIN pending[s]
        /\ ~conf'[c].confirmed
        => /\ DOMAIN pending'[s] = DOMAIN pending[s] \ {conf'[c].id}
           /\ \A k \in DOMAIN pending'[s] : pending'[s][k] = pending[s][k]
           /\ \A s2 \in Services \ {s} : pending'[s2] = pending[s2]
           /\ conf'[c].pc = "done"
           /\ conf'[c].message = CancelledMessage
           /\ conf'[c].channelId = 0 /\ conf'[c].ticketNo = 0
           /\ channels' = channels
           /\ tickets' = tickets

C6_CancelRemovesOnlyThatEntry == [][C6_CancelStep]_vars

C6_Witness ==
    \E c \in Confs :
        /\ conf[c].pc = "done"
        /\ conf[c].found /\ ~conf[c].confirmed
        /\ conf[c].message = CancelledMessage
        /\ DOMAIN pending[instanceOf[c]] # {}

\* A later call with the id of c, made on the same instance before any
\* further pending creation was recorded.
RepeatOf(c2, c) ==
    /\ c \in Earlier(c2)
    /\ conf[c2].pc # "idle"
    /\ conf[c2].id = conf[c].id
    /\ instanceOf[c2] = instanceOf[c]
    /\ conf[c2].putsSeen = conf[c].putsSeen

\* C7: a confirmation call with a known id and accept=true whose category no
\* longer exists when it is looked up reports success=false with the "no
\* longer exists" message and creates no channel and no ticket; its entry is
\* consumed all the same, so a repeat of the confirmation reports "expired".
C7_CategoryGone ==
    \A c \in Confs :
        conf[c].categoryFound = "no"
        => /\ conf[c].found /\ conf[c].confirmed
           /\ conf[c].pc = "done"
           /\ ~conf[c].success
           /\ conf[c].message = NoCategoryMessage
           /\ conf[c].channelId = 0 /\ conf[c].ticketNo = 0
           /\ conf[c].putsSeen = PutsSoFar
              => conf[c].id \notin DOMAIN pending[instanceOf[c]]
           /\ \A c2 \in Confs : RepeatOf(c2, c) => Expired(c2)

C7_Witness ==
    \E c \in Confs, c2 \in Confs :
        /\ conf[c].categoryFound = "no"
        /\ RepeatOf(c2, c)
        /\ conf[c2].confirmed

\* Clock values a run can see.
ClockValues ==
    {StartTime + a + b * FiveMinutes : a \in 0..(MaxTicks + 1), b \in 0..(MaxTicks + 1)}

\* The clock value a confirmation id was built from.
CreatedAt(key) ==
    CHOOSE at \in ClockValues : \E u \in Users : key = ConfirmationId(u, at)

\* C8: the sweep run at clock value now removes from the ledger the entries
\* whose id was built more than five minutes before now and no other: an
\* entry exactly five minutes old and the entry just recorded stay, with
\* their contents unchanged.
C8_SweepStep ==
    \A t \in Turns :
        LET s == instanceOf[t]
            id == turn'[t].cid
        IN  turn[t].cid = NoId /\ id # NoId
            => /\ id \in DOMAIN pending'[s]
               /\ DOMAIN pending'[s] =
                     {k \in DOMAIN pending[s] \cup {id} :
                         CreatedAt(k) >= now' - FiveMinutes}
               /\ \A k \in DOMAIN pending'[s] \ {id} :
                     pending'[s][k] = pending[s][k]

C8_SweepRemovesOnlyOld == [][C8_SweepStep]_vars

C8_Witness ==
    \E t1 \in Turns, t2 \in Turns :
        LET s == instanceOf[t2] IN
        /\ turn[t1].cid # NoId /\ turn[t2].cid # NoId
        /\ turn[t2].pc = "marker_user"
        /\ CreatedAt(turn[t1].cid) < now - FiveMinutes
        /\ \A c \in Confs : conf[c].pc = "idle" \/ conf[c].id = ForeignId
        /\ DOMAIN pending[s] = {turn[t2].cid}

\* C9: confirmation ids are never reused: any two turns that record a
\* pending creation generate different ids, so that the ledger of an
\* instance holds one entry for each recorded creation not yet consumed or
\* swept.
C9_IdsNeverReused ==
    \A t1 \in Turns, t2 \in Turns :
        t1 # t2 /\ turn[t1].cid # NoId /\ turn[t2].cid # NoId
        => turn[t1].cid # turn[t2].cid

\* C10: for a text of at most maxLength characters splitResponse returns
\* one chunk, the text itself as it was passed (not trimmed).
C10_ShortTextOneChunk ==
    splitPc = "done" /\ StrLen(text) <= 2000 => chunks = << text >>

C10_Witness ==
    /\ splitPc = "done"
    /\ StrLen(text) = 2000
    /\ Trim(text) # text
    /\ chunks = << text >>

\* C10 as the specification words it: the one chunk is the trimmed text.
C10_ShortTextTrimmed ==
    splitPc = "done" /\ StrLen(text) <= 2000 => chunks = << Trim(text) >>


RECURSIVE Letters(_)
\* The characters of a string that are not whitespace, in order.
Letters(str) ==
    IF Len(str) = 0 THEN << >>
    ELSE IF IsWhitespace(str[1]) THEN Letters(Tail(str))
    ELSE Concat(<< str[1] >>, Letters(Tail(str)))

RECURSIVE ConcatAll(_)
\* The chunks of a result put one after the other.
ConcatAll(cs) ==
    IF Len(cs) = 0 THEN << >> ELSE Concat(cs[1], ConcatAll(Tail(cs)))

\* C11: the chunks splitResponse returns, put one after the other, hold the
\* non-whitespace characters of the text in the same order: none is added,
\* dropped, duplicated or moved.
C11_ContentPreserved ==
    splitPc = "done" => Letters(ConcatAll(chunks)) = Letters(text)

\* The chunk is one word: it holds no whitespace.
IsLoneWord(chunk) == \A i \in 1..Len(chunk) : ~IsWhitespace(chunk[i])

\* C12: every chunk splitResponse returns is at most 2000 characters long,
\* unless it is one word without whitespace that is itself longer.
C12_ChunksWithinLimit ==
    splitPc = "done"
    => \A i \in 1..Len(chunks) :
          StrLen(chunks[i]) <= 2000 \/ IsLoneWord(chunks[i])

\* C13: a turn that finds no enabled category (the list is empty, or the
\* lookup failed and answered []) skips stage 1: it makes no tool-enabled
\* call, makes one plain call, records no pending creation and never returns
\* needsConfirmation.
C13_NoCategoriesSkipsStage1 ==
    \A t \in Turns :
        turn[t].categories = "none"
        => /\ turn[t].pc \in {"stage2", "reply_user", "reply_assistant", "done"}
           /\ turn[t].toolCalls = 0
           /\ turn[t].tool = Null
           /\ turn[t].cid = NoId
           /\ turn[t].result # "needsConfirmation"
           /\ turn[t].plainCalls <= 1
           /\ turn[t].pc \in {"reply_user", "reply_assistant"}
              => turn[t].plainCalls = 1
           /\ turn[t].pc = "done"
              => turn[t].plainCalls = 1 \/ turn[t].failed = "history_read"

C13_Witness ==
    \E t \in Turns :
        /\ turn[t].categories = "none"
        /\ turn[t].pc = "done"
        /\ turn[t].result = "response"
        /\ failures > 0
        /\ turn[t].rag = "answered"

\* C14: a turn whose LLM call throws, in stage 1 or in stage 2, makes no
\* further LLM call, returns null, and has written nothing to the history
\* and recorded nothing in the ledger.
C14_FailedCallState ==
    \A t \in Turns :
        /\ turn[t].tool = "thrown"
           => /\ turn[t].pc = "done"
              /\ turn[t].failed = "llm"
              /\ turn[t].toolCalls = 1 /\ turn[t].plainCalls = 0
        /\ turn[t].failed = "llm"
           => /\ turn[t].pc = "done"
              /\ turn[t].result = "null"
              /\ turn[t].toolCalls + turn[t].plainCalls <= 2
              /\ turn[t].toolCalls <= 1 /\ turn[t].plainCalls <= 1
              /\ turn[t].writes = 0
              /\ turn[t].cid = NoId

C14_FailedCallStep ==
    \A t \in Turns :
        turn[t].failed = Null /\ turn'[t].failed = "llm"
        => /\ history' = history
           /\ pending' = pending

C14_FailedCallEndsTurn == [][C14_FailedCallStep]_vars /\ []C14_FailedCallState

C14_Witness ==
    \E t1 \in Turns, t2 \in Turns :
        /\ turn[t1].tool = "thrown" /\ turn[t1].pc = "done"
        /\ turn[t2].result = "needsConfirmation"

\* How many entries of a role a history holds.
Entries(h, role) == Cardinality({i \in 1..Len(h) : h[i].role = role})

\* No turn is under way.
Quiet == \A t \in Turns : turn[t].pc \in {"idle", "done"}

\* C15: a turn in which a history write throws returns null and leaves no
\* partial persistence: once the turns are over, no history holds a user
\* entry without its assistant entry.
C15_NoPartialPersistence ==
    /\ \A t \in Turns : turn[t].failed = "history_write" => turn[t].result = "null"
    /\ Quiet => \A k \in DOMAIN history :
                   Entries(history[k], "user") = Entries(history[k], "assistant")

\* C16: a turn whose context retrieval throws is not ended by it:
\* searchRagContext answers null and the turn goes on without context, makes
\* its LLM call and, when nothing else fails, persists its two entries and
\* returns a response or a confirmation request.
C16_RetrievalState ==
    \A t \in Turns :
        turn[t].rag = "thrown"
        => /\ turn[t].failed # "retrieval"
           /\ turn[t].categories # Null
           /\ turn[t].pc = "done" /\ turn[t].failed = Null
              => /\ turn[t].result \in {"response", "needsConfirmation"}
                 /\ turn[t].toolCalls + turn[t].plainCalls >= 1
                 /\ turn[t].writes = 2

C16_RetrievalStep ==
    \A t \in Turns :
        turn[t].pc = "idle" /\ turn'[t].rag = "thrown"
        => /\ turn'[t].pc \in {"stage1", "stage2"}
           /\ history' = history
           /\ pending' = pending

C16_RetrievalFailureAbsorbed == [][C16_RetrievalStep]_vars /\ []C16_RetrievalState

C16_Witness ==
    \E t \in Turns :
        /\ turn[t].rag = "thrown"
        /\ turn[t].pc = "done"
        /\ turn[t].result = "response"
        /\ turn[t].plainCalls = 1

\* C16 as the specification words it: the turn whose retrieval throws
\* returns null, makes no LLM call and persists nothing.
C16_RetrievalFailureEndsTurn ==
    \A t \in Turns :
        turn[t].rag = "thrown"
        => /\ turn[t].toolCalls = 0 /\ turn[t].plainCalls = 0
           /\ turn[t].writes = 0
           /\ turn[t].pc = "done" => turn[t].result = "null"

\* C17: once the ticket record of a confirmation call exists, a failure of a
\* later step (renaming the channel, granting the support role, posting the
\* welcome message) does not make the call fail: it returns success=true.
C17_SetupFailureNotFatal ==
    \A c \in Confs :
        conf[c].ticketNo # 0 /\ conf[c].pc = "done" => conf[c].success

\* What handleTicketConfirmation can answer.
ConfirmationMessages ==
    {ExpiredMessage, CancelledMessage, NoCategoryMessage, "Server not found.",
     "Ticket created successfully!", ConfirmationCatch.message}

\* C18: no failure of a collaborator leaves the core as an exception: a
\* finished processMessage has returned null or a result, a finished
\* handleTicketConfirmation a {success, message} value, a finished
\* clearUserHistory true or false; a call in which a collaborator threw has
\* returned the value of its catch.
C18_NoExceptionEscapes ==
    /\ \A t \in Turns :
          turn[t].pc = "done"
          => /\ turn[t].result \in {"null", "response", "needsConfirmation"}
             /\ turn[t].failed # Null => turn[t].result = "null"
    /\ \A c \in Confs :
          conf[c].pc = "done"
          => /\ conf[c].success \in BOOLEAN
             /\ conf[c].message \in ConfirmationMessages
             /\ conf[c].failed \notin {Null, "support_role"}
                => ~conf[c].success /\ conf[c].message = ConfirmationCatch.message
    /\ clear.pc = "done" => clear.result \in {"true", "false"}

C18_Witness ==
    /\ clear.pc = "done" /\ clear.result = "true"
    /\ \E t \in Turns : turn[t].pc = "done" /\ turn[t].failed = "history_write"
    /\ \E c \in Confs : conf[c].pc = "done"

\* C19: the ledger is one for the process: after a confirmation call for a
\* recorded id, with no creation recorded since, the id is in no ledger - the
\* call has found and resolved the entry, whatever instance it was made on,
\* unless the entry had been resolved or swept before.
C19_LedgerProcessWide ==
    \A t \in Turns, c \in Confs :
        /\ turn[t].cid # NoId
        /\ conf[c].pc # "idle"
        /\ conf[c].id = turn[t].cid
        /\ conf[c].putsSeen = PutsSoFar
        => conf[c].id \notin DOMAIN pending[instanceOf[t]]

\* C20: in the plain stage a missing or empty content makes the turn return
\* null with nothing appended to the history; a non-empty content is
\* appended after the user's message, as the user entry followed by the
\* assistant entry holding it, and is what the turn returns.
C20_PlainState ==
    \A t \in Turns :
        /\ turn[t].failed = "no_content"
           => /\ turn[t].pc = "done"
              /\ turn[t].result = "null"
              /\ turn[t].writes = 0
        /\ turn[t].pc \in {"reply_user", "reply_assistant"}
           => HasContent(turn[t].content) /\ turn[t].content # ""
        /\ turn[t].result = "response"
           => /\ turn[t].content \in PlainContents \ {"undefined", ""}
              /\ turn[t].writes = 2

C20_PlainStep ==
    \A t \in Turns :
        LET k == << turn[t].user, turn[t].guild >> IN
        /\ turn[t].pc = "stage2" /\ turn'[t] # turn[t] => history' = history
        /\ turn[t].pc = "reply_user" /\ turn'[t].pc = "reply_assistant"
           => history' = [history EXCEPT ![k] =
                 Append(@, [role |-> "user", content |-> << turn[t].msg >>])]
        /\ turn[t].pc = "reply_assistant" /\ turn'[t].result = "response"
           => /\ history' = [history EXCEPT ![k] =
                    Append(@, [role |-> "assistant",
                               content |-> << turn[t].content >>])]
              /\ turn'[t].content = turn[t].content

C20_PlainContentPersisted == [][C20_PlainStep]_vars /\ []C20_PlainState

C20_Witness ==
    \E t1 \in Turns, t2 \in Turns :
        /\ turn[t1].failed = "no_content"
        /\ turn[t2].result = "response"
        /\ Len(history[<< turn[t2].user, turn[t2].guild >>]) = 2

\* The positions a turn may move to from each position.
TurnMoves ==
    [idle |-> {"stage1", "stage2"},
     stage1 |-> {"marker_user", "stage2", "done"},
     marker_user |-> {"marker_assistant", "done"},
     marker_assistant |-> {"done"},
     stage2 |-> {"reply_user", "done"},
     reply_user |-> {"reply_assistant", "done"},
     reply_assistant |-> {"done"},
     done |-> {}]

\* C21: a turn goes from its start to the tool check (only when there are
\* categories), then to the tool-triggered or the plain path, then ends with
\* one of needsConfirmation, response and null.  It makes at most one
\* tool-enabled and at most one plain LLM call, the tool-enabled one first;
\* it makes the plain call exactly when stage 1 recorded no pending creation
\* and nothing failed before the call; no result is both a confirmation
\* request and a response.
C21_TurnState ==
    \A t \in Turns :
        /\ turn[t].toolCalls <= 1 /\ turn[t].plainCalls <= 1
        /\ turn[t].pc \in {"idle", "stage1"}
           => turn[t].toolCalls = 0 /\ turn[t].plainCalls = 0
        /\ turn[t].toolCalls = 1 => turn[t].categories = "some"
        /\ turn[t].plainCalls = 1 /\ turn[t].categories = "some"
           => turn[t].toolCalls = 1
        /\ turn[t].cid # NoId => turn[t].plainCalls = 0 /\ turn[t].toolCalls = 1
        /\ turn[t].tool = "thrown" => turn[t].plainCalls = 0
        /\ turn[t].pc \in {"marker_user", "marker_assistant"}
           => turn[t].cid # NoId
        /\ turn[t].pc \in {"reply_user", "reply_assistant"}
           => turn[t].plainCalls = 1 /\ turn[t].cid = NoId
        /\ turn[t].pc = "done"
           => /\ turn[t].result \in {"needsConfirmation", "response", "null"}
              /\ turn[t].result = "needsConfirmation"
                 => turn[t].cid # NoId /\ turn[t].content = Null
              /\ turn[t].result = "response"
                 => turn[t].cid = NoId /\ turn[t].plainCalls = 1
              /\ turn[t].cid = NoId /\ turn[t].failed \in {Null, "no_content", "history_write"}
                 => turn[t].plainCalls = 1
        /\ turn[t].pc # "done" => turn[t].result = Null

C21_TurnStep ==
    \A t \in Turns :
        turn'[t].pc # turn[t].pc
        => /\ turn'[t].pc \in TurnMoves[turn[t].pc]
           /\ turn'[t].pc = "stage1" => turn'[t].categories = "some"
           /\ turn'[t].toolCalls >= turn[t].toolCalls
           /\ turn'[t].plainCalls >= turn[t].plainCalls
           /\ turn'[t].toolCalls > turn[t].toolCalls => turn[t].pc = "stage1"
           /\ turn'[t].plainCalls > turn[t].plainCalls => turn[t].pc = "stage2"

C21_TurnStateMachine == [][C21_TurnStep]_vars /\ []C21_TurnState

C21_Witness ==
    \E t1 \in Turns, t2 \in Turns :
        /\ turn[t1].result = "needsConfirmation"
        /\ turn[t2].result = "response"
        /\ turn[t2].toolCalls = 1

\* The turns of every pair have been serialized, no history write has
\* failed and no history has been cleared.
Serialized ==
    /\ \A t \in Turns : ~turn[t].overlapped /\ turn[t].failed # "history_write"
    /\ clear.pc = "idle"

\* The entries of a history are user, assistant, user, assistant, ...
Alternates(h) ==
    \A i \in 1..Len(h) : h[i].role = IF i % 2 = 1 THEN "user" ELSE "assistant"

\* What a finished turn has put after the user's message: its content, or
\* the marker of its ticket request.
IsAnswerOf(e, u) ==
    /\ u.role = "user" /\ u.content \in {<< m >> : m \in UserMessages}
    /\ e.role = "assistant"
    /\ \/ e.content \in {<< c >> : c \in PlainContents \ {"undefined", ""}}
       \/ e.content \in {Marker(n) : n \in ToolCategoryNames \ {Null}}

\* C22: when the turns of a (user, guild) pair are serialized and no history
\* write fails, a turn appends nothing or a user entry immediately followed
\* by an assistant entry (the ticket-request marker in a tool-triggered
\* turn); earlier entries are never reordered or changed, so the history
\* alternates user, assistant.
C22_SerialState ==
    Serialized
    => /\ \A k \in DOMAIN history :
             /\ Alternates(history[k])
             /\ \A i \in 1..Len(history[k]) :
                   i % 2 = 0 => IsAnswerOf(history[k][i], history[k][i - 1])
             /\ Len(history[k]) =
                   turn["t1"].writes * (IF << turn["t1"].user, turn["t1"].guild >> = k THEN 1 ELSE 0)
                   + turn["t2"].writes * (IF << turn["t2"].user, turn["t2"].guild >> = k THEN 1 ELSE 0)
       /\ \A t \in Turns :
             /\ turn[t].pc = "done" => turn[t].writes \in {0, 2}
             /\ turn[t].writes = 1
                => LET h == history[<< turn[t].user, turn[t].guild >>]
                   IN  h[Len(h)].role = "user"

C22_SerialStep ==
    \A k \in DOMAIN history :
        \/ history'[k] = history[k]
        \/ /\ Len(history'[k]) = Len(history[k]) + 1
           /\ SubSeq(history'[k], 1, Len(history[k])) = history[k]
        \/ clear.pc = "idle" /\ clear'.pc = "done" /\ history'[k] = << >>

C22_SerializedTurnsAlternate == [][C22_SerialStep]_vars /\ []C22_SerialState

C22_Witness ==
    /\ Serialized
    /\ \E k \in DOMAIN history : Len(history[k]) = 4
    /\ \E t \in Turns : turn[t].result = "needsConfirmation"

\* Two turns of one pair that were not serialized have interleaved their
\* entries: user, user, assistant, assistant.
InterleavedHistory ==
    \E k \in DOMAIN history :
        /\ Len(history[k]) = 4
        /\ history[k][2].role = "user"
        /\ \A t \in Turns : turn[t].failed = Null

\* The confirmation call is past its lookup and has not returned.
InFlight(c) == conf[c].pc \in {"category", "channel", "ticket", "setup"}

\* C23: however the confirmation calls and the tool-triggered turns (and
\* their sweeps) interleave, two confirmation calls with the same id never
\* both proceed past the lookup, and a call proceeds only with an entry it
\* has found in the ledger and removed from it in the same step.
C23_NeverBothProceed ==
    /\ \A c1 \in Confs, c2 \in Confs :
          /\ c1 \in Earlier(c2)
          /\ conf[c1].id = conf[c2].id
          /\ instanceOf[c1] = instanceOf[c2]
          => ~(Consumed(c1) /\ conf[c1].confirmed
               /\ Consumed(c2) /\ conf[c2].confirmed)
    /\ \A c \in Confs :
          InFlight(c) \/ conf[c].channelId # 0 \/ conf[c].ticketNo # 0
          => conf[c].found /\ conf[c].confirmed

\* The lookup and the delete of the resolver are one step: of two calls
\* that found the same id the later one found an entry recorded after the
\* earlier call, and a call that finds nothing reports expired.
LookupState ==
    \A c1 \in Confs, c2 \in Confs :
        /\ c1 \in Earlier(c2)
        /\ Consumed(c1) /\ Consumed(c2)
        /\ conf[c1].id = conf[c2].id
        /\ instanceOf[c1] = instanceOf[c2]
        => conf[c2].putsSeen > conf[c1].putsSeen

LookupStep ==
    \A c \in Confs :
        LET s == instanceOf[c] IN
        conf[c].pc = "idle" /\ conf'[c].pc # "idle"
        => /\ conf'[c].found = (conf'[c].id \in DOMAIN pending[s])
           /\ conf'[c].id \notin DOMAIN pending'[s]
           /\ ~conf'[c].found
              => /\ conf'[c].pc = "done"
                 /\ conf'[c].message = ExpiredMessage
                 /\ channels' = channels /\ tickets' = tickets

LookupAndDeleteAtomic == [][LookupStep]_vars /\ []LookupState

\* The step records a pending creation.
Records(t) == turn[t].cid = NoId /\ turn'[t].cid # NoId

\* C24: the sweep runs in the turns that record a pending creation, after
\* the put and before the turn goes on: right after a creation the ledger
\* holds no entry older than five minutes.  No other step sweeps: a step
\* that records nothing removes at most the entry a confirmation call has
\* looked up, so an entry older than five minutes can stay in the ledger
\* between creations.
C24_SweepStep ==
    /\ \A t \in Turns :
          Records(t)
          => \A k \in DOMAIN pending'[instanceOf[t]] :
                CreatedAt(k) >= now' - FiveMinutes
    /\ \A s \in Services :
          (\A t \in Turns : ~(Records(t) /\ instanceOf[t] = s))
          => \A k \in DOMAIN pending[s] \ DOMAIN pending'[s] :
                \E c \in Confs :
                   /\ instanceOf[c] = s
                   /\ conf[c].pc = "idle" /\ conf'[c].id = k

C24_SweepOnlyOnCreation == [][C24_SweepStep]_vars

C24_Witness ==
    \E t \in Turns :
        /\ turn[t].result = "needsConfirmation"
        /\ turn[t].cid \in DOMAIN pending[instanceOf[t]]
        /\ CreatedAt(turn[t].cid) < now - FiveMinutes
        /\ \E c \in Confs : conf[c].pc = "done"

\* The rows of the tables that are enabled, their ids and their names.
EnabledRows ==
    UNION {{table[i] : i \in {j \in 1..Len(table) : table[j].isEnabled}} :
              table \in CategoryTables}
EnabledIds == {row.id : row \in EnabledRows}
EnabledNames == {row.name : row \in EnabledRows}

\* Position i of the list is the first that carries the name.
FirstOfName(cats, i, name) ==
    /\ cats[i].name = name
    /\ \A j \in 1..(i - 1) : cats[j].name # name

\* C25: the category the model names is looked for among the enabled
\* categories only; when several of them carry the name the pending entry
\* records the id of the first in list order; the name of a category that is
\* only disabled resolves to nothing and the turn goes on to the plain call.
C25_ResolutionState ==
    \A t \in Turns :
        /\ \A i \in 1..Len(turn[t].cats) : turn[t].cats[i].id \in EnabledIds
        /\ turn[t].cid # NoId
           => /\ turn[t].tool = "create_ticket"
              /\ turn[t].pc \in {"marker_user", "marker_assistant"}
                 => /\ turn[t].category \in EnabledNames
                    /\ \E i \in 1..Len(turn[t].cats) :
                          turn[t].cats[i].name = turn[t].category
    /\ \A s \in Services : \A k \in DOMAIN pending[s] :
          pending[s][k].categoryId \in EnabledIds

C25_ResolutionStep ==
    \A t \in Turns :
        Records(t)
        => \E i \in 1..Len(turn[t].cats) :
              /\ FirstOfName(turn[t].cats, i, turn'[t].category)
              /\ pending'[instanceOf[t]][turn'[t].cid].categoryId = turn[t].cats[i].id

C25_FirstEnabledMatch == [][C25_ResolutionStep]_vars /\ []C25_ResolutionState

C25_Witness ==
    \E t \in Turns :
        /\ turn[t].pc = "marker_user"
        /\ Len(turn[t].cats) = 2
        /\ turn[t].cats[1].name = turn[t].cats[2].name
        /\ pending[instanceOf[t]][turn[t].cid].categoryId = turn[t].cats[1].id

\* C26: a confirmation call never proceeds with a pending entry whose id was
\* built more than five minutes before the call: it reports expired, whether
\* or not a sweep has run since the entry became that old.
C26_StaleStep ==
    \A c \in Confs :
        /\ conf[c].pc = "idle" /\ conf'[c].pc # "idle"
        /\ conf'[c].id \in KnownIds
        /\ CreatedAt(conf'[c].id) < now' - FiveMinutes
        => /\ conf'[c].pc = "done"
           /\ conf'[c].message = ExpiredMessage

C26_StaleEntryExpired == [][C26_StaleStep]_vars

\* C27: the ledger holds an entry of a turn only if the turn returned
\* needsConfirmation: when a turn returns null or a plain response the id it
\* recorded, if any, is not in the ledger of its instance, and when it
\* returns needsConfirmation the id it recorded is in that ledger.
C27_ReturnStep ==
    \A t \in Turns :
        turn[t].pc # "done" /\ turn'[t].pc = "done"
        => IF turn'[t].result = "needsConfirmation"
           THEN turn'[t].cid \in DOMAIN pending'[instanceOf[t]]
           ELSE turn'[t].cid # NoId
                => turn'[t].cid \notin DOMAIN pending'[instanceOf[t]]

C27_NoOrphanPending == [][C27_ReturnStep]_vars

\* C28: when a confirmation call has returned, the channel it created, if
\* any, is referenced by a stored ticket record, and a call that returned
\* success = false has created neither a channel nor a ticket record.
C28_NoOrphanChannel ==
    \A c \in Confs :
        conf[c].pc = "done"
        => /\ conf[c].channelId # 0
              => \E i \in 1..Len(tickets) :
                    tickets[i].channelId = conf[c].channelId
           /\ ~conf[c].success
              => conf[c].channelId = 0 /\ conf[c].ticketNo = 0

\* C29: splitResponse returns at least one chunk, and no chunk it returns
\* is empty or made of whitespace only, whatever the text.
C29_NoBlankChunk ==
    splitPc = "done"
    => /\ Len(chunks) >= 1
       /\ \A i \in 1..Len(chunks) : Len(Trim(chunks[i])) > 0

=============================================================================
